---------------------------- MODULE Spec2Model ----------------------------
(***************************************************************************)
(* A model of Cantera's IdealGasReactor (src/zeroD/IdealGasReactor.cpp):   *)
(* the packed state vector, the cached properties, the right-hand side     *)
(* evalEqs, the partial Jacobian evalJacEqs and the component indexer.     *)
(*                                                                         *)
(* Floating-point quantities are modelled as exact rationals <<n, d>> in   *)
(* lowest terms with d > 0, so that the arithmetic of the code (products,  *)
(* quotients, accumulations) is evaluated and not abstracted; rounding is  *)
(* not modelled.  Arrays are functions on 0 .. K-1 as in the code.         *)
(***************************************************************************)
EXTENDS Integers, Sequences, FiniteSets, TLC

(***************************************************************************)
(* Bounds of the model.                                                    *)
(***************************************************************************)
NumSpecies == 2
\* largest number of inlets connected to the reactor
MaxInlets == 2
\* largest value of the integrator time passed to evalEqs
MaxTime == 1
\* cap on the reaction-rate multiplier left behind by failed evalEqs calls
MaxMultiplier == 2
\* largest base offset of the reactor's block in the network Jacobian
MaxStart == 1

(***************************************************************************)
(* Rational arithmetic.                                                    *)
(***************************************************************************)
Abs(a) == IF a < 0 THEN -a ELSE a

RECURSIVE GCD(_, _)
GCD(a, b) == IF b = 0 THEN a ELSE GCD(b, a % b)

\* a quotient by zero, and whatever is computed from one, is the single
\* non-finite value <<0, 0>>
Norm(n, d) ==
    IF d = 0 THEN <<0, 0>>
    ELSE LET s == IF d < 0 THEN -1 ELSE 1
             g == GCD(Abs(n), Abs(d))
         IN  <<(s * n) \div g, (s * d) \div g>>

R(n) == <<n, 1>>
Zero == R(0)
One == R(1)
Finite(a) == a[2] # 0
RAdd(a, b) ==
    IF a[2] = 1 /\ b[2] = 1 THEN <<a[1] + b[1], 1>>
    ELSE IF ~Finite(a) \/ ~Finite(b) THEN <<0, 0>>
    ELSE LET g == GCD(a[2], b[2])
         IN  Norm(a[1] * (b[2] \div g) + b[1] * (a[2] \div g), (a[2] \div g) * b[2])
RSub(a, b) == RAdd(a, <<-b[1], b[2]>>)
RMul(a, b) ==
    IF a[2] = 1 /\ b[2] = 1 THEN <<a[1] * b[1], 1>>
    ELSE IF ~Finite(a) \/ ~Finite(b) THEN <<0, 0>>
    ELSE LET g1 == GCD(Abs(a[1]), b[2])
             g2 == GCD(Abs(b[1]), a[2])
         IN  Norm((a[1] \div g1) * (b[1] \div g2), (a[2] \div g2) * (b[2] \div g1))
RInv(b) == IF b[1] < 0 THEN <<-b[2], -b[1]>> ELSE <<b[2], b[1]>>
RDiv(a, b) == IF ~Finite(b) \/ b[1] = 0 THEN <<0, 0>> ELSE RMul(a, RInv(b))
RNeg(a) == <<-a[1], a[2]>>
NonFinite == <<0, 0>>

\* f[0] + ... + f[k-1]
RECURSIVE RSumTo(_, _)
RSumTo(f, k) == IF k = 0 THEN Zero ELSE RAdd(RSumTo(f, k - 1), f[k - 1])

ZeroVec(k) == [n \in 0 .. k - 1 |-> Zero]

\* std::vector::resize(k, 0.0): existing elements are kept, new ones are 0.0
Resize(v, k) == [n \in 0 .. k - 1 |-> IF n \in DOMAIN v THEN v[n] ELSE Zero]


(***************************************************************************)
(* The state of one IdealGasReactor and of the objects it refers to.       *)
(***************************************************************************)
VARIABLES
    m_thermo,     \* the attached ThermoPhase (NULL when none)
    m_nsp,        \* number of gas species of the attached phase
    th,           \* state of the ideal-gas ThermoPhase object: rho, T, Y
    m_state,      \* snapshot written by saveState
    m_mass, m_vol,
    m_enthalpy, m_pressure, m_intEnergy,
    m_uk, m_wdot, m_sdot, m_work,     \* per-species scratch buffers
    m_vdot, m_Q,
    m_chem, m_energy,
    multiplier,   \* the kinetics rate multiplier a sensitivity parameter perturbs
    sensValue,    \* m_sensParams[0].value, the multiplier saved by applySensitivity
    nInlet, nOutlet, nWall,
    speciesNames, \* names of the gas species of the phase
    y,            \* the vector passed to the last call, as getState left it
    ydot,         \* the derivative vector passed to the last call, as evalEqs left it
    jac,          \* the matrix passed to the last call, as evalJacEqs left it
    op            \* the last call: its name, outcome and arguments

vars == <<m_thermo, m_nsp, th, m_state, m_mass, m_vol, m_enthalpy, m_pressure,
          m_intEnergy, m_uk, m_wdot, m_sdot, m_work, m_vdot, m_Q, m_chem,
          m_energy, multiplier, sensValue, nInlet, nOutlet, nWall,
          speciesNames, y, ydot, jac, op>>

NULL == "null"
NPOS == -1
NoParams == 0
GasConstant == 8314

(***************************************************************************)
(* Collaborators.  The ThermoPhase, Kinetics, FlowDevice and Wall classes  *)
(* are outside the reactor; they are represented by small deterministic    *)
(* property functions (an ideal gas in units with R/W = 1) or by values    *)
(* drawn from small sets at each call.                                     *)
(***************************************************************************)
Phases == {"gas", "surf", "liquid"}

\* ThermoPhase::type()
PhaseType(p) ==
    CASE p = "gas" -> "IdealGas"
      [] p = "surf" -> "Surf"
      [] OTHER -> "idealgas"

Species == 0 .. NumSpecies - 1

molecularWeights == [n \in Species |-> R(n + 2)]
pressure(s) == RMul(s.rho, s.T)
cv_mass(s) == RAdd(One, s.T)
intEnergy_mass(s) == RMul(cv_mass(s), s.T)
enthalpy_mass(s) == RAdd(intEnergy_mass(s), RDiv(pressure(s), s.rho))
getPartialMolarIntEnergies(s) == [n \in Species |-> RMul(R(n + 1), s.T)]
getCp_R(s) == [n \in Species |-> R(n + 2)]
getdCp_RdT(s) == [n \in Species |-> One]

\* state of the phase object when the caller creates it
InitialPhaseState ==
    [rho |-> One, T |-> One, Y |-> [n \in Species |-> IF n = 0 THEN One ELSE Zero]]

\* Kinetics::getNetProductionRates and getNetProductionRateTDerivatives: species 0
\* is consumed, the others are produced, at a rate that is zero at T = 1 and
\* that the rate multiplier scales
getNetProductionRates(s, mult) ==
    [n \in Species |->
        RMul(RMul(R(mult), RSub(s.T, One)), IF n = 0 THEN R(-1) ELSE One)]
getNetProductionRateTDerivatives(s, mult) ==
    [n \in Species |-> RMul(R(mult), IF n = 0 THEN R(-1) ELSE One)]

\* production rates of the gas species on the walls' surfaces at a time
SurfaceProductionRates(time) == [n \in Species |-> IF n = 0 THEN R(time) ELSE Zero]

Times == 0 .. MaxTime

\* FlowDevice::massFlowRate(time) of inlet i and of outlet i
InletMassFlowRate(i, t) == R(i + 1 + t)
OutletMassFlowRate(i, t) == R(2 * (i + 1) * t)
\* FlowDevice::enthalpy_mass() and outletSpeciesMassFlowRate(n) of inlet i:
\* the upstream reactor holds species 0 only
InletEnthalpy(i) == R(i + 1)
InletSpeciesMassFlowRate(i, n, t) == IF n = 0 THEN InletMassFlowRate(i, t) ELSE Zero

\* Wall::vdot(t) and Wall::Q(t), already signed for this side of the wall
WallVdot(i, t) == R(i + 1)
WallQ(i, t) == R(i + 2)

\* the reactor set-ups considered: <<inlets, outlets, walls, energy equation>>
Configurations ==
    {<<0, 0, 0, TRUE>>, <<1, 1, 0, FALSE>>, <<MaxInlets, MaxInlets - 1, 1, TRUE>>}

\* a packed state vector: mass, volume, temperature, two kinds of composition
Pack(m, v, t, unnorm) ==
    [k \in 0 .. NumSpecies + 2 |->
        IF k = 0 THEN R(m) ELSE IF k = 1 THEN R(v) ELSE IF k = 2 THEN R(t)
        ELSE IF unnorm THEN One ELSE IF k = 3 THEN One ELSE Zero]

\* argument vectors the integrator passes to updateState and evalJacEqs
YInputs == {Pack(2, 1, 2, TRUE), Pack(1, 2, 1, FALSE)}
\* the vector the integrator passes to evalEqs, which does not read it
YTrial == {Pack(2, 2, 2, FALSE)}

\* the content of a vector or matrix entry the call has not written
Untouched == R(-9)
Unwritten == [k \in 0 .. NumSpecies + 2 |-> Untouched]

JacDim == MaxStart + 3 + NumSpecies
JacIndex == (0 .. JacDim - 1) \X (0 .. JacDim - 1)
NoJac == [ij \in JacIndex |-> Untouched]

NoOp == [name |-> "none", status |-> "ok", time |-> 0, params |-> NoParams,
         arg |-> "", start |-> 0, result |-> ""]

(***************************************************************************)
(* Construction.                                                           *)
(***************************************************************************)
\* names of the species of the phase the reactor is run with
DefaultNames == <<"H2", "O2", "N2", "AR", "HE">>
\* names a gas species may bear
PoolNames == {"H2", "O2", "mass", "volume", "temperature"}

Constructed ==
    /\ m_thermo = NULL
    /\ m_nsp = 0
    /\ th = InitialPhaseState
    /\ m_state = <<>>
    /\ m_mass = Zero
    /\ m_vol = One
    /\ m_enthalpy = Zero
    /\ m_pressure = Zero
    /\ m_intEnergy = Zero
    /\ m_uk = <<>>
    /\ m_wdot = <<>>
    /\ m_sdot = <<>>
    /\ m_work = <<>>
    /\ m_vdot = Zero
    /\ m_Q = Zero
    /\ m_chem = FALSE
    /\ multiplier = 1
    /\ sensValue = 1
    /\ y = Unwritten
    /\ ydot = Unwritten
    /\ jac = NoJac
    /\ op = NoOp

Init ==
    /\ Constructed
    /\ \E c \in Configurations :
          nInlet = c[1] /\ nOutlet = c[2] /\ nWall = c[3] /\ m_energy = c[4]
    /\ speciesNames = [n \in Species |-> DefaultNames[n + 1]]

Config == <<nInlet, nOutlet, nWall, m_energy, speciesNames>>
Cache == <<m_mass, m_vol, m_enthalpy, m_pressure, m_intEnergy, m_state>>
Buffers == <<m_uk, m_wdot, m_sdot, m_work, m_vdot, m_Q>>
Sens == <<multiplier, sensValue>>

(***************************************************************************)
(* setThermoMgr                                                            *)
(***************************************************************************)
\* ReactorBase::setThermoMgr: bind the phase and cache its properties
ReactorBase_setThermoMgr(p) ==
    /\ m_thermo' = p
    /\ m_nsp' = NumSpecies
    /\ m_state' = th
    /\ m_enthalpy' = enthalpy_mass(th)
    /\ m_intEnergy' = intEnergy_mass(th)
    /\ m_pressure' = pressure(th)

\* a variant that binds the phase before it checks the type tag
setThermoMgr_bindsFirst(p) ==
    /\ ReactorBase_setThermoMgr(p)
    /\ op' = [NoOp EXCEPT !.name = "setThermoMgr", !.arg = p,
                          !.status = IF PhaseType(p) # "IdealGas" THEN "error" ELSE "ok"]

setThermoMgr(p) ==
    IF PhaseType(p) # "IdealGas"
    THEN /\ op' = [NoOp EXCEPT !.name = "setThermoMgr", !.status = "error", !.arg = p]
         /\ UNCHANGED <<m_thermo, m_nsp, m_state, m_enthalpy, m_intEnergy, m_pressure>>
    ELSE /\ ReactorBase_setThermoMgr(p)
         /\ op' = [NoOp EXCEPT !.name = "setThermoMgr", !.arg = p]

SetThermoMgr ==
    \E p \in Phases :
        /\ setThermoMgr(p)
        /\ y' = Unwritten /\ ydot' = Unwritten /\ jac' = NoJac
        /\ UNCHANGED <<th, m_mass, m_vol, Buffers, m_chem, Sens, Config>>

(***************************************************************************)
(* initialize, setChemistry                                                *)
(***************************************************************************)
\* Reactor::initialize followed by m_uk.resize(m_nsp, 0.0)
initialize ==
    IF m_thermo = NULL
    THEN /\ op' = [NoOp EXCEPT !.name = "initialize", !.status = "error"]
         /\ UNCHANGED <<th, m_sdot, m_wdot, m_work, m_uk, m_enthalpy, m_pressure,
                        m_intEnergy>>
    ELSE /\ th' = m_state
         /\ m_sdot' = Resize(m_sdot, m_nsp)
         /\ m_wdot' = Resize(m_wdot, m_nsp)
         /\ m_work' = Resize(m_work, m_nsp)
         /\ m_enthalpy' = enthalpy_mass(m_state)
         /\ m_pressure' = pressure(m_state)
         /\ m_intEnergy' = intEnergy_mass(m_state)
         /\ m_uk' = Resize(m_uk, m_nsp)
         /\ op' = [NoOp EXCEPT !.name = "initialize"]

Initialize ==
    /\ initialize
    /\ y' = Unwritten /\ ydot' = Unwritten /\ jac' = NoJac
    /\ UNCHANGED <<m_thermo, m_nsp, m_state, m_mass, m_vol, m_vdot, m_Q, m_chem,
                   Sens, Config>>

\* the scratch buffers have the size the evaluation routines index them with
Sized ==
    /\ DOMAIN m_uk = Species /\ DOMAIN m_wdot = Species
    /\ DOMAIN m_sdot = Species /\ DOMAIN m_work = Species

SetChemistry ==
    /\ \E b \in BOOLEAN :
          /\ m_chem' = b
          /\ op' = [NoOp EXCEPT !.name = "setChemistry", !.arg = b]
    /\ y' = Unwritten /\ ydot' = Unwritten /\ jac' = NoJac
    /\ UNCHANGED <<m_thermo, m_nsp, th, Cache, Buffers, Sens, Config>>

(***************************************************************************)
(* getState, updateState                                                   *)
(***************************************************************************)
\* a variant that tests for the phase only after the volume is written
getState_lateCheck ==
    IF m_thermo = NULL
    THEN /\ op' = [NoOp EXCEPT !.name = "getState", !.status = "error"]
         /\ y' = [Unwritten EXCEPT ![1] = m_vol]
         /\ UNCHANGED <<th, m_mass>>
    ELSE /\ th' = m_state
         /\ m_mass' = RMul(m_state.rho, m_vol)
         /\ y' = [k \in 0 .. m_nsp + 2 |->
                    IF k = 0 THEN RMul(m_state.rho, m_vol)
                    ELSE IF k = 1 THEN m_vol
                    ELSE IF k = 2 THEN m_state.T
                    ELSE m_state.Y[k - 3]]
         /\ op' = [NoOp EXCEPT !.name = "getState"]

getState ==
    IF m_thermo = NULL
    THEN /\ op' = [NoOp EXCEPT !.name = "getState", !.status = "error"]
         /\ y' = Unwritten
         /\ UNCHANGED <<th, m_mass>>
    ELSE /\ th' = m_state
         /\ m_mass' = RMul(m_state.rho, m_vol)
         /\ y' = [k \in 0 .. m_nsp + 2 |->
                    IF k = 0 THEN RMul(m_state.rho, m_vol)
                    ELSE IF k = 1 THEN m_vol
                    ELSE IF k = 2 THEN m_state.T
                    ELSE m_state.Y[k - 3]]
         /\ op' = [NoOp EXCEPT !.name = "getState"]

GetState ==
    /\ getState
    /\ ydot' = Unwritten /\ jac' = NoJac
    /\ UNCHANGED <<m_thermo, m_nsp, m_state, m_vol, m_enthalpy, m_pressure,
                   m_intEnergy, Buffers, m_chem, Sens, Config>>

\* a variant that passes the mass, not the density, to setState_TR
setState_TR_mass(yv) ==
    [rho |-> yv[0], T |-> yv[2], Y |-> [n \in Species |-> yv[n + 3]]]

\* the phase after setMassFractions_NoNorm(y+3) and setState_TR(y[2], mass/vol)
setState_TR(yv) ==
    [rho |-> RDiv(yv[0], yv[1]), T |-> yv[2], Y |-> [n \in Species |-> yv[n + 3]]]

updateState(yv) ==
    /\ m_mass' = yv[0]
    /\ m_vol' = yv[1]
    /\ th' = setState_TR(yv)
    /\ m_enthalpy' = enthalpy_mass(setState_TR(yv))
    /\ m_pressure' = pressure(setState_TR(yv))
    /\ m_intEnergy' = intEnergy_mass(setState_TR(yv))
    /\ m_state' = setState_TR(yv)
    /\ op' = [NoOp EXCEPT !.name = "updateState", !.arg = yv,
                          !.result = IF yv = y THEN "from getState" ELSE "trial"]

\* the integrator passes a trial vector, or the vector getState has just written
UpdateState ==
    /\ m_thermo # NULL
    /\ \E yv \in YInputs \cup ({y} \ {Unwritten}) : updateState(yv)
    /\ y' = Unwritten /\ ydot' = Unwritten /\ jac' = NoJac
    /\ UNCHANGED <<m_thermo, m_nsp, Buffers, m_chem, Sens, Config>>

(***************************************************************************)
(* evalEqs                                                                 *)
(***************************************************************************)
\* values of the params argument: a null pointer, or a perturbation factor
ParamSet == {NoParams, 2}

\* Reactor::applySensitivity: save the multiplier and perturb it
applySensitivity(params) ==
    IF params = NoParams
    THEN [multiplier |-> multiplier, value |-> sensValue]
    ELSE [multiplier |-> multiplier * params, value |-> multiplier]

\* Reactor::resetSensitivity: put the saved multiplier back
resetSensitivity(params, s) ==
    IF params = NoParams THEN s.multiplier ELSE s.value

\* Reactor::evalWalls: volume rate and heat rate summed over the walls
evalWalls(time) ==
    [vdot |-> RSumTo([i \in 0 .. nWall - 1 |-> WallVdot(i, time)], nWall),
     Q |-> RSumTo([i \in 0 .. nWall - 1 |-> WallQ(i, time)], nWall)]

\* Reactor::evalSurfaces: m_sdot is cleared, then filled from the walls' surfaces
evalSurfaces(time) ==
    IF nWall = 0 THEN ZeroVec(NumSpecies) ELSE SurfaceProductionRates(time)

\* the net mass flux evalSurfaces returns
mdot_surf(sdot) ==
    RSumTo([n \in Species |-> RMul(sdot[n], molecularWeights[n])], NumSpecies)

\* the species loop: production in the gas and on surfaces, dilution
SpeciesRate(n, wdot, sdot) ==
    RSub(RDiv(RMul(RAdd(RMul(wdot[n], m_vol), sdot[n]), molecularWeights[n]), m_mass),
         RDiv(RMul(m_state.Y[n], mdot_surf(sdot)), m_mass))

\* the contribution of inlet i to dYdt[n]
InletRate(i, n, time) ==
    RDiv(RSub(InletSpeciesMassFlowRate(i, n, time),
              RMul(InletMassFlowRate(i, time), m_state.Y[n])), m_mass)

\* dYdt[n] once the species loop and the first j inlets are done
dYdt(n, wdot, sdot, time, j) ==
    RAdd(SpeciesRate(n, wdot, sdot),
         RSumTo([i \in 0 .. j - 1 |-> InletRate(i, n, time)], j))

\* a variant that adds the outlets' mass flow instead of subtracting it
dmdt_outletsAdded(sdot, time) ==
    RAdd(RAdd(mdot_surf(sdot),
              RSumTo([i \in 0 .. nOutlet - 1 |-> OutletMassFlowRate(i, time)], nOutlet)),
         RSumTo([i \in 0 .. nInlet - 1 |-> InletMassFlowRate(i, time)], nInlet))

dmdt(sdot, time) ==
    RAdd(RSub(mdot_surf(sdot),
              RSumTo([i \in 0 .. nOutlet - 1 |-> OutletMassFlowRate(i, time)], nOutlet)),
         RSumTo([i \in 0 .. nInlet - 1 |-> InletMassFlowRate(i, time)], nInlet))

\* m * c_v * dT/dt
mcvdTdt(wdot, sdot, uk, vdot, Q, time) ==
    LET work == RSub(RNeg(RMul(m_pressure, vdot)), Q)
        release == RSumTo([n \in Species |->
                       RAdd(RMul(RMul(wdot[n], uk[n]), m_vol), RMul(sdot[n], uk[n]))],
                       NumSpecies)
        flowWork == RSumTo([i \in 0 .. nOutlet - 1 |->
                       RDiv(RMul(RMul(OutletMassFlowRate(i, time), m_pressure), m_vol),
                            m_mass)], nOutlet)
        carried(i) == RSumTo([n \in Species |->
                       RMul(RDiv(uk[n], molecularWeights[n]),
                            InletSpeciesMassFlowRate(i, n, time))], NumSpecies)
        inflow == RSumTo([i \in 0 .. nInlet - 1 |->
                       RSub(RMul(InletEnthalpy(i), InletMassFlowRate(i, time)),
                            carried(i))], nInlet)
    IN  RAdd(RSub(RSub(work, release), flowWork), inflow)

\* a variant that takes the reactor mass from y[0], not from the cache
evalEqs_ydot_massFromY(time, yv, wdot, sdot, vdot, Q) ==
    [k \in 0 .. NumSpecies + 2 |->
        IF k = 0 THEN dmdt(sdot, time)
        ELSE IF k = 1 THEN vdot
        ELSE IF k = 2
        THEN IF m_energy
             THEN RDiv(mcvdTdt(wdot, sdot, getPartialMolarIntEnergies(m_state),
                               vdot, Q, time),
                       RMul(yv[0], cv_mass(m_state)))
             ELSE Zero
        ELSE RDiv(RMul(dYdt(k - 3, wdot, sdot, time, nInlet), m_mass), yv[0])]

\* what a call that returns leaves in ydot, from the cache and the buffers
evalEqs_ydot(time, yv, wdot, sdot, vdot, Q) ==
    [k \in 0 .. NumSpecies + 2 |->
        IF k = 0 THEN dmdt(sdot, time)
        ELSE IF k = 1 THEN vdot
        ELSE IF k = 2
        THEN IF m_energy
             THEN RDiv(mcvdTdt(wdot, sdot, getPartialMolarIntEnergies(m_state),
                               vdot, Q, time),
                       RMul(m_mass, cv_mass(m_state)))
             ELSE Zero
        ELSE dYdt(k - 3, wdot, sdot, time, nInlet)]

\* what a call that returns with these arguments leaves in ydot
evalEqs_result(time, yv, params) ==
    LET s == applySensitivity(params)
        wdot == IF m_chem THEN getNetProductionRates(m_state, s.multiplier) ELSE m_wdot
    IN  evalEqs_ydot(time, yv, wdot, evalSurfaces(time),
                     evalWalls(time).vdot, evalWalls(time).Q)

\* the collaborator calls of evalEqs, in the order it makes them
Stage(at) ==
    CASE at = "thermo" -> 1
      [] at = "kinetics" -> 2
      [] at = "walls" -> 3
      [] at = "surfaces" -> 4
      [] at = "outlet" -> 5
      [] at = "inlet" -> 6
      [] at = "cv" -> 7
      [] OTHER -> 8

\* the calls that can throw in the current configuration ("none": the call returns)
FailPoints ==
    {[at |-> a, i |-> 0] : a \in {"none", "thermo"}}
    \cup {[at |-> "kinetics", i |-> 0] : x \in {1} \cap (IF m_chem THEN {1} ELSE {})}
    \cup {[at |-> a, i |-> 0] : a \in IF nWall > 0 THEN {"walls", "surfaces"} ELSE {}}
    \cup {[at |-> "outlet", i |-> 0] : x \in {1} \cap (IF nOutlet > 0 THEN {1} ELSE {})}
    \cup {[at |-> "inlet", i |-> i] : i \in 0 .. nInlet - 1}
    \cup {[at |-> "cv", i |-> 0] : x \in {1} \cap (IF m_energy THEN {1} ELSE {})}

evalEqs(time, yv, params, fail) ==
    LET st == Stage(fail.at)
        s == applySensitivity(params)
        wdot == IF m_chem /\ st > 2
                THEN getNetProductionRates(m_state, s.multiplier)
                ELSE m_wdot
        vdot == IF st > 3 THEN evalWalls(time).vdot ELSE m_vdot
        Q == IF st > 3 THEN evalWalls(time).Q ELSE m_Q
        sdot == IF st > 4 THEN evalSurfaces(time) ELSE m_sdot
        j == IF st > 6 THEN nInlet ELSE IF st = 6 THEN fail.i ELSE 0
    IN  /\ th' = m_state
        /\ multiplier' = IF st = 8 THEN resetSensitivity(params, s) ELSE s.multiplier
        /\ sensValue' = s.value
        /\ m_uk' = IF st > 1 THEN getPartialMolarIntEnergies(m_state) ELSE m_uk
        /\ m_wdot' = wdot
        /\ m_vdot' = vdot
        /\ m_Q' = Q
        /\ m_sdot' = sdot
        /\ ydot' = IF st = 8
                   THEN evalEqs_result(time, yv, params)
                   ELSE [k \in 0 .. NumSpecies + 2 |->
                           IF k >= 3 /\ st > 4 THEN dYdt(k - 3, wdot, sdot, time, j)
                           ELSE IF k = 0 /\ st > 6 THEN dmdt(sdot, time)
                           ELSE IF k = 1 /\ st > 6 THEN vdot
                           ELSE Untouched]
        /\ op' = [NoOp EXCEPT !.name = "evalEqs",
                              !.status = IF st = 8 THEN "ok" ELSE "error",
                              !.time = time, !.params = params]

EvalEqs ==
    /\ m_thermo # NULL
    /\ Sized
    /\ \E time \in Times, yv \in YTrial, params \in ParamSet, fail \in FailPoints :
          /\ params # NoParams => multiplier * params <= MaxMultiplier
          /\ evalEqs(time, yv, params, fail)
    /\ y' = Unwritten /\ jac' = NoJac
    /\ UNCHANGED <<m_thermo, m_nsp, m_state, m_mass, m_vol, m_enthalpy, m_pressure,
                   m_intEnergy, m_work, m_chem, Config>>

(***************************************************************************)
(* evalJacEqs                                                              *)
(***************************************************************************)
\* Small c/R: the sum of dCvRdT[i] / mw[i] * y[start + i]
dcvRdT(yv, start) ==
    RSumTo([i \in Species |->
               RMul(RDiv(getdCp_RdT(th)[i], molecularWeights[i]), yv[start + i])],
           NumSpecies)

\* first term of d(Tdot)/dT, with the buffers as the routine has refilled them
df1dT(yv, start, work, uk, wdot) ==
    LET CvR(i) ==
            RMul(RSub(RSub(RSub(work[i], One),
                           RDiv(RMul(uk[i], dcvRdT(yv, start)), cv_mass(th))),
                      RDiv(uk[i], RMul(R(GasConstant), th.T))),
                 RAdd(RMul(wdot[i], m_vol), m_sdot[i]))
        inv_mcv == RDiv(One, RMul(m_mass, cv_mass(th)))
    IN  RMul(RSumTo([i \in Species |-> CvR(i)], NumSpecies),
             RMul(inv_mcv, R(GasConstant)))

\* second term of d(Tdot)/dT
df1dT_2t(uk, dwdotdT) ==
    RMul(RSumTo([i \in Species |-> RMul(uk[i], RMul(m_vol, dwdotdT[i]))], NumSpecies),
         RDiv(One, RMul(m_mass, cv_mass(th))))

\* d(Y_i)/dT
dYdT(i, wdot, dwdotdT) ==
    RMul(RDiv(molecularWeights[i], m_mass),
         RAdd(RDiv(RAdd(RMul(m_vol, wdot[i]), m_sdot[i]), th.T), dwdotdT[i]))

\* a variant that also clears the temperature row of the species columns
evalJacEqs_J_clearsRow(J0, yv, start) ==
    LET T_ind == start + 2
        y_ind == start + 3
        work == getCp_R(th)
        uk == getPartialMolarIntEnergies(th)
        wdot == getNetProductionRates(th, multiplier)
        dwdotdT == getNetProductionRateTDerivatives(th, multiplier)
    IN  [ij \in DOMAIN J0 |->
            IF ij = <<T_ind, T_ind>>
            THEN RSub(df1dT(yv, start, work, uk, wdot), df1dT_2t(uk, dwdotdT))
            ELSE IF ij[2] = T_ind /\ ij[1] >= y_ind /\ ij[1] < y_ind + m_nsp
            THEN dYdT(ij[1] - y_ind, wdot, dwdotdT)
            ELSE IF ij[1] = T_ind /\ ij[2] >= y_ind /\ ij[2] < y_ind + m_nsp
            THEN Zero
            ELSE J0[ij]]

\* the matrix J after the call, from the matrix J0 passed to it
evalJacEqs_J(J0, yv, start) ==
    LET T_ind == start + 2
        y_ind == start + 3
        work == getCp_R(th)
        uk == getPartialMolarIntEnergies(th)
        wdot == getNetProductionRates(th, multiplier)
        dwdotdT == getNetProductionRateTDerivatives(th, multiplier)
    IN  [ij \in DOMAIN J0 |->
            IF ij = <<T_ind, T_ind>>
            THEN RSub(df1dT(yv, start, work, uk, wdot), df1dT_2t(uk, dwdotdT))
            ELSE IF ij[2] = T_ind /\ ij[1] >= y_ind /\ ij[1] < y_ind + m_nsp
            THEN dYdT(ij[1] - y_ind, wdot, dwdotdT)
            ELSE J0[ij]]

evalJacEqs(time, yv, start) ==
    /\ m_work' = getCp_R(th)
    /\ m_uk' = getPartialMolarIntEnergies(th)
    /\ m_wdot' = getNetProductionRates(th, multiplier)
    /\ jac' = evalJacEqs_J(NoJac, yv, start)
    /\ op' = [NoOp EXCEPT !.name = "evalJacEqs", !.time = time, !.start = start]

EvalJacEqs ==
    /\ m_thermo # NULL
    /\ Sized
    /\ \E yv \in YInputs, start \in 0 .. MaxStart : evalJacEqs(0, yv, start)
    /\ y' = Unwritten /\ ydot' = Unwritten
    /\ UNCHANGED <<m_thermo, m_nsp, th, Cache, m_sdot, m_vdot, m_Q, m_chem, Sens, Config>>

Next ==
    \/ SetThermoMgr
    \/ Initialize
    \/ SetChemistry
    \/ GetState
    \/ UpdateState
    \/ EvalEqs
    \/ EvalJacEqs

Spec == Init /\ [][Next]_vars

(***************************************************************************)
(* componentIndex, componentName                                           *)
(***************************************************************************)
\* Reactor::speciesIndex: the index of the gas species of that name, or npos
speciesIndex(nm) ==
    IF \E k \in DOMAIN speciesNames : speciesNames[k] = nm
    THEN CHOOSE k \in DOMAIN speciesNames :
             /\ speciesNames[k] = nm
             /\ \A j \in DOMAIN speciesNames : speciesNames[j] = nm => k <= j
    ELSE NPOS

\* a variant that tests the three fixed names before the species names
componentIndex_fixedFirst(nm) ==
    IF nm = "mass" THEN 0
    ELSE IF nm = "volume" THEN 1
    ELSE IF nm = "temperature" THEN 2
    ELSE IF speciesIndex(nm) # NPOS THEN speciesIndex(nm) + 3
    ELSE NPOS

componentIndex(nm) ==
    IF speciesIndex(nm) # NPOS THEN speciesIndex(nm) + 3
    ELSE IF nm = "mass" THEN 0
    ELSE IF nm = "volume" THEN 1
    ELSE IF nm = "temperature" THEN 2
    ELSE NPOS

\* Reactor::componentName: the generic naming; an index past the end throws
Reactor_componentName(k) ==
    IF k > 2 /\ k < m_nsp + 3 THEN speciesNames[k - 3]
    ELSE IF k = 0 THEN "mass"
    ELSE IF k = 1 THEN "volume"
    ELSE IF k = 2 THEN "int_energy"
    ELSE "CanteraError"

componentName(k) ==
    IF k = 2 THEN "temperature" ELSE Reactor_componentName(k)

\* the names asked for: every name a species can bear, and one no species bears
QueryNames == PoolNames \cup {"not-a-species"}

ComponentIndex ==
    /\ m_thermo # NULL
    /\ \E nm \in QueryNames :
          op' = [NoOp EXCEPT !.name = "componentIndex", !.arg = nm,
                             !.result = componentIndex(nm)]
    /\ y' = Unwritten /\ ydot' = Unwritten /\ jac' = NoJac
    /\ UNCHANGED <<m_thermo, m_nsp, th, Cache, Buffers, m_chem, Sens, Config>>

ComponentName ==
    /\ m_thermo # NULL
    /\ \E k \in 0 .. NumSpecies + 3 :
          op' = [NoOp EXCEPT !.name = "componentName", !.arg = k,
                             !.result = componentName(k),
                             !.status = IF componentName(k) = "CanteraError"
                                        THEN "error" ELSE "ok"]
    /\ y' = Unwritten /\ ydot' = Unwritten /\ jac' = NoJac
    /\ UNCHANGED <<m_thermo, m_nsp, th, Cache, Buffers, m_chem, Sens, Config>>

\* the phases considered by the indexer: every choice of distinct species names
NameChoices ==
    {f \in [Species -> PoolNames] :
        \A a, b \in Species : a # b => f[a] # f[b]}

InitIndex ==
    /\ Constructed
    /\ nInlet = 0 /\ nOutlet = 0 /\ nWall = 0 /\ m_energy = TRUE
    /\ speciesNames \in NameChoices

NextIndex ==
    \/ SetThermoMgr
    \/ ComponentIndex
    \/ ComponentName

SpecIndex == InitIndex /\ [][NextIndex]_vars

(***************************************************************************)
(* The claims.                                                             *)
(***************************************************************************)
Returned(name) == op.name = name /\ op.status = "ok"
Threw(name) == op.name = name /\ op.status = "error"
SpeciesNameSet == {speciesNames[k] : k \in DOMAIN speciesNames}

\* C1: the perturbation evalEqs applies is reverted on every exit path, so
\* after any sequence of evalEqs calls, returned or failed, the rate
\* multiplier has its unperturbed value.
C1_PerturbationReverted == multiplier = 1

\* C2 as stated: setThermoMgr succeeds exactly for the type tag "IdealGas",
\* and after a call that raised the reactor has no phase.
C2_RejectedLeavesUnset ==
    op.name = "setThermoMgr" =>
        /\ (op.status = "ok") <=> (PhaseType(op.arg) = "IdealGas")
        /\ op.status = "ok" => m_thermo = op.arg
        /\ op.status = "error" => m_thermo = NULL

\* C2 as amended: setThermoMgr succeeds exactly for the type tag "IdealGas";
\* a call that raises binds nothing and leaves the phase reference, the
\* species count and the cached properties as they were before the call
\* (unset only if no phase was bound before).
C2_RejectedLeavesUnchanged ==
    [][op'.name = "setThermoMgr" =>
          /\ (op'.status = "ok") <=> (PhaseType(op'.arg) = "IdealGas")
          /\ op'.status = "ok" => m_thermo' = op'.arg
          /\ op'.status = "error" =>
                /\ m_thermo' = m_thermo /\ m_nsp' = m_nsp
                /\ UNCHANGED <<th, Cache>>]_vars

\* a rejected phase, offered to a reactor that has one
C2_Witness == Threw("setThermoMgr") /\ m_thermo = "gas" /\ op.arg = "surf"

\* C3: getState followed by updateState with the vector just written leaves
\* the phase with the density, temperature and mass fractions it had, and the
\* reactor with mass y[0] = density * volume and volume y[1].
C3_RoundTrip ==
    [][/\ op'.name = "getState" /\ op'.status = "ok" =>
              /\ th' = th
              /\ y'[0] = RMul(th.rho, m_vol) /\ y'[1] = m_vol
       /\ Returned("getState") /\ op'.name = "updateState"
            /\ op'.result = "from getState" =>
              /\ th'.rho = th.rho /\ th'.T = th.T /\ th'.Y = th.Y
              /\ m_mass' = y[0] /\ m_vol' = y[1]
              /\ m_mass' = RMul(th.rho, m_vol') /\ m_vol' = m_vol]_vars

\* a round trip of a phase whose density and volume are not 1
C3_Witness ==
    /\ Returned("updateState") /\ op.result = "from getState"
    /\ th.rho = <<1, 2>> /\ m_vol = R(2)

\* C4: with no inlets, outlets or walls and all production rates zero, a call
\* of evalEqs on a reactor of positive mass leaves ydot[0] = 0 and
\* ydot[n+3] = 0 for every species n, whatever was called before.
C4_NoFlowNoReaction ==
    (/\ Returned("evalEqs")
     /\ nInlet = 0 /\ nOutlet = 0 /\ nWall = 0
     /\ getNetProductionRates(m_state, multiplier) = ZeroVec(NumSpecies)
     /\ m_mass[1] > 0)
    => /\ ydot[0] = Zero
       /\ \A n \in Species : ydot[n + 3] = Zero

\* C5 as stated: componentIndex of a species name is its index plus 3 and
\* componentName maps it back; "mass", "volume", "temperature" have the
\* indices 0, 1, 2 for every set of species names; componentName(2) is
\* "temperature"; any other name has no index.
C5_IndexNameInverse ==
    /\ op.name = "componentIndex" =>
          /\ \A i \in Species : op.arg = speciesNames[i] =>
                op.result = i + 3 /\ componentName(op.result) = op.arg
          /\ op.arg = "mass" => op.result = 0
          /\ op.arg = "volume" => op.result = 1
          /\ op.arg = "temperature" => op.result = 2
          /\ op.arg \notin SpeciesNameSet \cup {"mass", "volume", "temperature"}
                => op.result = NPOS
    /\ op.name = "componentName" /\ op.arg = 2 => op.result = "temperature"

\* C5 as amended: componentIndex of a species name is its index plus 3 and
\* componentName maps it back; "mass", "volume", "temperature" have the
\* indices 0, 1, 2 unless a gas species bears that name (the species index
\* plus 3 is returned then); componentName(2) is "temperature"; any other
\* name has no index.
C5_IndexNameInverseUnlessShadowed ==
    /\ op.name = "componentIndex" =>
          /\ \A i \in Species : op.arg = speciesNames[i] =>
                op.result = i + 3 /\ componentName(op.result) = op.arg
          /\ op.arg = "mass" /\ "mass" \notin SpeciesNameSet => op.result = 0
          /\ op.arg = "volume" /\ "volume" \notin SpeciesNameSet => op.result = 1
          /\ op.arg = "temperature" /\ "temperature" \notin SpeciesNameSet
                => op.result = 2
          /\ op.arg \notin SpeciesNameSet \cup {"mass", "volume", "temperature"}
                => op.result = NPOS
    /\ op.name = "componentName" /\ op.arg = 2 => op.result = "temperature"

\* the index of a species called "mass" has been asked for
C5_Witness ==
    /\ op.name = "componentIndex" /\ op.arg = "mass"
    /\ speciesNames[1] = "mass" /\ op.result = 4

\* C6: after evalEqs, ydot[0] is the net surface mass flux plus the inlets'
\* mass flow rates minus the outlets', each at the time of the call; one
\* inlet and one outlet of equal rate and no surface flux give ydot[0] = 0;
\* ydot[1] is the volume rate the walls supply.
C6_MassBalance ==
    Returned("evalEqs") =>
        /\ ydot[0] =
              RSub(RAdd(mdot_surf(m_sdot),
                        RSumTo([i \in 0 .. nInlet - 1 |->
                                   InletMassFlowRate(i, op.time)], nInlet)),
                   RSumTo([i \in 0 .. nOutlet - 1 |->
                              OutletMassFlowRate(i, op.time)], nOutlet))
        /\ (/\ nInlet = 1 /\ nOutlet = 1
            /\ InletMassFlowRate(0, op.time) = OutletMassFlowRate(0, op.time)
            /\ mdot_surf(m_sdot) = Zero) => ydot[0] = Zero
        /\ ydot[1] = RSumTo([i \in 0 .. nWall - 1 |-> WallVdot(i, op.time)], nWall)
        /\ ydot[1] = m_vdot

\* one inlet and one outlet of equal, non-zero mass flow rate
C6_Witness ==
    /\ Returned("evalEqs") /\ nInlet = 1 /\ nOutlet = 1
    /\ InletMassFlowRate(0, op.time) = OutletMassFlowRate(0, op.time)
    /\ InletMassFlowRate(0, op.time) # Zero
    /\ ydot[0] = Zero

\* C7: getState on a reactor without a phase raises, writes no entry of y
\* and leaves the mass, the volume and the cached properties unchanged.
C7_GetStateUnattached ==
    [][op'.name = "getState" /\ m_thermo = NULL =>
          /\ op'.status = "error"
          /\ y' = Unwritten
          /\ UNCHANGED <<m_thermo, th, Cache>>]_vars

\* getState has raised
C7_Witness == Threw("getState") /\ m_thermo = NULL /\ y = Unwritten

\* C8: with homogeneous chemistry disabled, evalEqs leaves in ydot what it
\* would with every homogeneous net production rate equal to zero.
C8_DisabledChemistryIsZero ==
    Returned("evalEqs") /\ ~m_chem =>
        \A yv \in YTrial :
            ydot = evalEqs_ydot(op.time, yv, ZeroVec(NumSpecies), m_sdot, m_vdot, m_Q)

\* C9: evalEqs restores the phase to the snapshot of the last updateState and
\* leaves the cache unchanged; what it leaves in ydot does not depend on its
\* y argument, and a second call with the same time and parameters would
\* leave the same ydot.
C9_CacheFunction ==
    /\ [](Returned("evalEqs") =>
            \A y2 \in YInputs \cup YTrial :
                evalEqs_result(op.time, y2, op.params) = ydot)
    /\ [][op'.name = "evalEqs" => th' = m_state /\ UNCHANGED Cache]_vars

\* a returned call with reactions, flows and a sensitivity perturbation
C9_Witness ==
    /\ Returned("evalEqs") /\ m_chem /\ op.params # NoParams /\ nInlet > 1
    /\ m_wdot # ZeroVec(NumSpecies) /\ ydot[2] # Zero /\ ydot[3] # Zero

\* the entries evalJacEqs writes for a block at offset start
JacWritten(start) ==
    {<<start + 2, start + 2>>} \cup {<<start + 3 + k, start + 2>> : k \in Species}

\* C10: evalJacEqs writes the entries (start+2, start+2) and
\* (start+3+k, start+2) of the matrix and leaves every other entry as the
\* caller passed it.
C10_TemperatureColumnOnly ==
    op.name = "evalJacEqs" =>
        /\ \A ij \in JacIndex \ JacWritten(op.start) : jac[ij] = Untouched
        /\ \A ij \in JacWritten(op.start) : jac[ij] # Untouched
        /\ \A k \in Species :
              /\ jac[<<op.start + 2, op.start + 3 + k>>] = Untouched
              /\ \A j \in Species :
                    jac[<<op.start + 3 + j, op.start + 3 + k>>] = Untouched

\* a block at a non-zero offset has been filled with finite values
C10_Witness ==
    /\ op.name = "evalJacEqs" /\ op.start > 0
    /\ \A ij \in JacWritten(op.start) : Finite(jac[ij]) /\ jac[ij] # Zero

============================================================================
